---- MODULE Spec2Model ----
(***************************************************************************)
(* Land-listing evaluation pipeline (main.py, land_eval/data_processor.py, *)
(* land_eval/crew.py, land_eval/utils/pdf_generator.py).                   *)
(*                                                                         *)
(* The file system is modelled by the directories the program touches:     *)
(* ./chroma_vectordb, database/master.csv, the staging ("cork")            *)
(* directories and ./reports.  Text is a sequence of characters.           *)
(***************************************************************************)
EXTENDS Integers, Sequences, FiniteSets, TLC

VARIABLES
    master,          \* database/master.csv: [exists, cols, ids]
    chroma,          \* ./chroma_vectordb: "absent" | "data" | "empty"
    dirExists,       \* staging directory -> BOOLEAN
    staging,         \* staging directory -> (file name -> file)
    reportsDir,      \* ./reports exists
    reports,         \* files of ./reports
    pc,              \* position of the running command
    cmd,             \* command being executed
    cork_path,       \* local cork_path of the command / argument of the call
    stock_number,    \* selected identifier
    inputs,          \* value returned by process_master_csv
    result,          \* value returned by the engine
    report_content,  \* value returned by the extractor
    artifact,        \* value returned by the renderer
    outcome,         \* how the command ended
    events,          \* what the command has done so far, in order
    prompts,         \* invalid answers given to the selection prompt
    clock,           \* wall clock, in seconds (timestamp resolution)
    pdf_available,   \* PDF_GENERATION_AVAILABLE of main.py
    renv,            \* what the environment did to the last render call
    vcall            \* the last call of a single function: its arguments

vars == <<master, chroma, dirExists, staging, reportsDir, reports, pc, cmd,
          cork_path, stock_number, inputs, result, report_content, artifact,
          outcome, events, prompts, clock, pdf_available, renv, vcall>>

----------------------------------------------------------------------------
(* Bounds *)

MaxRows == 2         \* rows of master.csv
MaxCols == 3         \* columns of master.csv in the segmenter specification
MaxReq == 2          \* length of a required-columns list given to validate_data
MaxPrompts == 1      \* invalid answers before the operator gives up or answers

----------------------------------------------------------------------------
(* Sequences *)

Range(s) == {s[i] : i \in 1..Len(s)}

SeqsUpTo(S, n) == UNION {[1..k -> S] : k \in 0..n}

NoRepeat(s) == \A i, j \in 1..Len(s) : i # j => s[i] # s[j]

----------------------------------------------------------------------------
(* Segment specs: the declared column lists of process_master_csv *)

property_cols == <<"Property Address", "City", "State", "Zip">>

environmental_cols == <<"In SFHA", "Fema Flood Zone", "FEMA Map Date", "Floodplain Area">>

growth_cols ==
    <<"% Pop Grwth 2020-2024(5m)", "% Pop Grwth 2024-2029(5m)",
      "% Pop Grwth 2020-2024(10m)", "% Pop Grwth 2024-2029(10m)",
      "% HU Grwth 2020-2024(5m)", "% HU Grwth 2020-2024(10m)">>

housing_cols ==
    <<"TotHUs_5", "OccHUs_5", "OwnerOcc_5", "RenterOcc_5",
      "AvgOwnerHHSize_5", "AvgRenterHHSize_5", "VacHUs_5",
      "VacantForSale_5", "VacantForRent_5", "VacantSeasonal_5",
      "MobileHomes_5", "MobileHomesPerK_5", "TotHUs_10", "OccHUs_10",
      "OwnerOcc_10", "RenterOcc_10", "AvgOwnerHHSize_10",
      "AvgRenterHHSize_10", "VacHUs_10", "VacantForSale_10",
      "VacantForRent_10", "VacantSeasonal_10", "MobileHomes_10",
      "MobileHomesPerK_10">>

demographics_cols ==
    <<"TotPop_5", "Age0_4_5", "Age5_9_5", "Age10_14_5",
      "Age15_19_5", "Age20_24_5", "Age25_34_5", "Age35_44_5",
      "Age45_54_5", "Age55_59_5", "Age60_64_5", "Age65_74_5",
      "Age75_84_5", "Over85_5", "TotHHs_5", "MedianHHInc_5",
      "AvgHHInc_5", "InKindergarten_5", "InElementary_5",
      "InHighSchool_5", "InCollege_5", "Disabled_5",
      "DisabledUnder18_5", "NonInst18_64_5", "Disabled18_64_5",
      "NonInstOver65_5", "DisabledElder_5", "TotPop_10",
      "Age0_4_10", "Age5_9_10", "Age10_14_10", "Age15_19_10",
      "Age20_24_10", "Age25_34_10", "Age35_44_10", "Age45_54_10",
      "Age55_59_10", "Age60_64_10", "Age65_74_10", "Age75_84_10",
      "Over85_10", "TotHHs_10", "MedianHHInc_10", "AvgHHInc_10",
      "InKindergarten_10", "InElementary_10", "InHighSchool_10",
      "InCollege_10", "Disabled_10", "DisabledUnder18_10",
      "NonInst18_64_10", "Disabled18_64_10", "NonInstOver65_10",
      "DisabledElder_10", "HvalUnder50_5", "Hval50_5", "Hval100_5",
      "Hval150_5", "Hval200_5", "Hval300_5", "Hval500_5",
      "HvalOverMillion_5", "HvalOver2Million_5", "MedianHValue_5",
      "MedianGrossRent_5", "AvgGrossRent_5", "HvalUnder50_10",
      "Hval50_10", "Hval100_10", "Hval150_10", "Hval200_10",
      "Hval300_10", "Hval500_10", "HvalOverMillion_10",
      "HvalOver2Million_10", "MedianHValue_10", "MedianGrossRent_10",
      "AvgGrossRent_10">>

\* The five segments in the order process_master_csv handles them: the
\* file each is written to and the key of its path in the returned dict.
Segments ==
    << [file |-> "property.csv", cols |-> property_cols, key |-> "property_csv_path"],
       [file |-> "enviornmental.csv", cols |-> environmental_cols, key |-> "environmental_csv_path"],
       [file |-> "growthTrends.csv", cols |-> growth_cols, key |-> "growth_trends_csv_path"],
       [file |-> "housingUnitsAndOccupancy.csv", cols |-> housing_cols, key |-> "occupancy_csv_path"],
       [file |-> "demographics.csv", cols |-> demographics_cols, key |-> "demographics_csv_path"] >>

SegmentIds == 1..Len(Segments)

ExtractNames == {Segments[k].file : k \in SegmentIds}

DefaultCork == "database/cork"

----------------------------------------------------------------------------
(* master.csv as pandas reads it *)

\* The text of a StockNumber cell; "" is an empty cell.
RawIds == {"A1", "2", ""}

DigitStrings == {"0", "1", "2", "3"}

IsDigit(s) == s \in DigitStrings

IntOf(s) == CASE s = "0" -> 0 [] s = "1" -> 1 [] s = "2" -> 2 [] s = "3" -> 3 [] OTHER -> 0

NaN == [t |-> "nan", s |-> "", n |-> 0]

StrVal(s) == [t |-> "str", s |-> s, n |-> 0]

NumVal(n) == [t |-> "num", s |-> "", n |-> n]

\* read_csv infers the column type: numeric when every non-empty cell is a
\* number, text otherwise; an empty cell is NaN in both.
ReadColumn(raw) ==
    LET numeric == \A i \in 1..Len(raw) : raw[i] = "" \/ IsDigit(raw[i])
    IN  [i \in 1..Len(raw) |->
            IF raw[i] = "" THEN NaN
            ELSE IF numeric THEN NumVal(IntOf(raw[i])) ELSE StrVal(raw[i])]

\* Elementwise ==: NaN equals nothing, a number never equals a text.
PdEq(a, b) == a.t # "nan" /\ b.t # "nan" /\ a = b

\* The value of column c in row r (an opaque scalar), and the literal
\* 'Unknown' used for a column the dataset lacks.
Cell(r, c) == [row |-> r, col |-> c]

Unknown == [row |-> 0, col |-> "Unknown"]

NoDataset == [exists |-> FALSE, cols |-> <<>>, ids |-> <<>>]

HasColumn(ds, c) == c \in Range(ds.cols)

----------------------------------------------------------------------------
(* validate_data *)

MissingColumns(cols, required_columns) ==
    SelectSeq(required_columns, LAMBDA c : c \notin Range(cols))

validate_data_AllRequired(cols, required_columns) ==
    Len(MissingColumns(cols, required_columns)) = 0

validate_data(cols, required_columns) ==
    Len(MissingColumns(cols, required_columns)) < Len(required_columns)

----------------------------------------------------------------------------
(* Files *)

\* One file-system operation or pipeline stage, as recorded in events.
Event(op, dir, file) == [op |-> op, dir |-> dir, file |-> file]

NoFile == [kind |-> "none", header |-> <<>>, rows |-> <<>>]

UserFile == [kind |-> "user", header |-> <<>>, rows |-> <<>>]

ExtractFile(header, rows) == [kind |-> "extract", header |-> header, rows |-> rows]

\* Files of a staging directory: the extracts, and two files put there by
\* someone else.
StagingNames == ExtractNames \cup {"notes.txt", "backup.csv"}

EmptyDir == [f \in StagingNames |-> NoFile]

\* The names that glob("*.csv") matches.
IsCsv(f) == f \in ExtractNames \cup {"backup.csv"}

----------------------------------------------------------------------------
(* process_master_csv *)

None == [ok |-> FALSE]

ColumnPos(cols, c) == CHOOSE i \in 1..Len(cols) : cols[i] = c

\* master_df[master_df['StockNumber'] == stock_number]: the matching rows,
\* by row number, in dataset order.
StockData(ds, sn) ==
    LET ids == ReadColumn(ds.ids)
    IN  SelectSeq([i \in 1..Len(ids) |-> i], LAMBDA i : PdEq(ids[i], sn))

ExistingCols_DatasetOrder(ds, cols) ==
    SelectSeq(ds.cols, LAMBDA c : c \in Range(cols))

\* [col for col in <segment>_cols if col in stock_data.columns]
ExistingCols(ds, cols) ==
    SelectSeq(cols, LAMBDA c : HasColumn(ds, c))

\* stock_data[existing_cols] as to_csv(index=False) writes it.
SegmentFile(ds, rows, k) ==
    LET header == ExistingCols(ds, Segments[k].cols)
    IN  ExtractFile(header,
                    [i \in 1..Len(rows) |->
                        [j \in 1..Len(header) |-> Cell(rows[i], header[j])]])

\* The segments whose validate_data guard passes.
Materialized(ds) ==
    {k \in SegmentIds : validate_data(ds.cols, Segments[k].cols)}

\* Variant of FirstValue that reads the last matching row.
FirstValue_LastRow(ds, rows, c) ==
    IF HasColumn(ds, c) THEN Cell(rows[Len(rows)], c) ELSE Unknown

\* stock_data[c].iloc[0] if c in stock_data.columns else 'Unknown'
FirstValue(ds, rows, c) ==
    IF HasColumn(ds, c) THEN Cell(rows[1], c) ELSE Unknown

CsvPath(dir, file) == [dir |-> dir, file |-> file]

\* The dict returned on success.
InputsDict(ds, rows, sn) ==
    [ok |-> TRUE,
     City |-> FirstValue(ds, rows, "City"),
     State |-> FirstValue(ds, rows, "State"),
     listing_id |-> sn,
     property_csv_path |-> CsvPath(DefaultCork, "property.csv"),
     environmental_csv_path |-> CsvPath(DefaultCork, "enviornmental.csv"),
     growth_trends_csv_path |-> CsvPath(DefaultCork, "growthTrends.csv"),
     occupancy_csv_path |-> CsvPath(DefaultCork, "housingUnitsAndOccupancy.csv"),
     demographics_csv_path |-> CsvPath(DefaultCork, "demographics.csv")]
    @@ ("Property Address" :> FirstValue(ds, rows, "Property Address"))

WriteEvents(cp, want) ==
    LET files == SelectSeq([k \in SegmentIds |-> k], LAMBDA k : k \in want)
    IN  [i \in 1..Len(files) |-> Event("write", cp, Segments[files[i]].file)]

process_master_csv_NoEmptyCheck(ds, sn, cp, exists, files) ==
    IF ~ds.exists \/ ~HasColumn(ds, "StockNumber")
    THEN [ret |-> None, files |-> files, log |-> <<>>]
    ELSE LET rows == StockData(ds, sn)
             want == Materialized(ds)
         IN  IF want # {} /\ ~exists
             THEN [ret |-> None, files |-> files, log |-> <<>>]
             ELSE [ret |-> IF rows = <<>> THEN None ELSE InputsDict(ds, rows, sn),
                   files |-> [f \in StagingNames |->
                                IF \E k \in want : Segments[k].file = f
                                THEN SegmentFile(ds, rows,
                                        CHOOSE k \in want : Segments[k].file = f)
                                ELSE files[f]],
                   log |-> WriteEvents(cp, want)]

\* The whole call: what it returns, the files of directory cp afterwards
\* and the writes it performed.  Every exception is caught and turned
\* into None: master.csv unreadable, no StockNumber column, or to_csv
\* refusing to write into a directory that does not exist.
process_master_csv(ds, sn, cp, exists, files) ==
    IF ~ds.exists \/ ~HasColumn(ds, "StockNumber")
    THEN [ret |-> None, files |-> files, log |-> <<>>]
    ELSE LET rows == StockData(ds, sn)
             want == Materialized(ds)
         IN  IF rows = <<>>
             THEN [ret |-> None, files |-> files, log |-> <<>>]
             ELSE IF want # {} /\ ~exists
             THEN [ret |-> None, files |-> files, log |-> <<>>]
             ELSE [ret |-> InputsDict(ds, rows, sn),
                   files |-> [f \in StagingNames |->
                                IF \E k \in want : Segments[k].file = f
                                THEN SegmentFile(ds, rows,
                                        CHOOSE k \in want : Segments[k].file = f)
                                ELSE files[f]],
                   log |-> WriteEvents(cp, want)]

----------------------------------------------------------------------------
(* Text *)

Marker == <<"F", "i", "n", "a", "l", " ", "A", "n", "s", "w", "e", "r", ":">>

Whitespace == {" ", "\n", "\t"}

OccursAt(s, m, i) ==
    /\ i + Len(m) - 1 <= Len(s)
    /\ \A j \in 1..Len(m) : s[i + j - 1] = m[j]

\* 'm in s'
Contains(s, m) == \E i \in 1..(Len(s) + 1) : OccursAt(s, m, i)

\* Variant of AfterFirst that splits at the last occurrence of m.
AfterFirst_Last(s, m) ==
    LET i == CHOOSE i \in 1..(Len(s) + 1) :
                 /\ OccursAt(s, m, i)
                 /\ \A j \in (i + 1)..(Len(s) + 1) : ~OccursAt(s, m, j)
    IN  SubSeq(s, i + Len(m), Len(s))

\* s.split(m, 1)[1]: what follows the first occurrence of m.
AfterFirst(s, m) ==
    LET i == CHOOSE i \in 1..(Len(s) + 1) :
                 /\ OccursAt(s, m, i)
                 /\ \A j \in 1..(i - 1) : ~OccursAt(s, m, j)
    IN  SubSeq(s, i + Len(m), Len(s))

RECURSIVE LStrip(_)
LStrip(s) == IF s # <<>> /\ Head(s) \in Whitespace THEN LStrip(Tail(s)) ELSE s

RECURSIVE RStrip(_)
RStrip(s) ==
    IF s # <<>> /\ s[Len(s)] \in Whitespace THEN RStrip(SubSeq(s, 1, Len(s) - 1)) ELSE s

\* s.strip()
Strip(s) == RStrip(LStrip(s))

----------------------------------------------------------------------------
(* Engine results, as the extractors see them *)

\* A task result: a dict with 'status' and 'output' (the output a text or
\* some other value), or a value that is no dict at all.
TaskDict(status, output) ==
    [is_dict |-> TRUE, status |-> status, out_is_str |-> TRUE, output |-> output]

TaskOtherOutput(status) ==
    [is_dict |-> TRUE, status |-> status, out_is_str |-> FALSE, output |-> <<>>]

TaskNotDict ==
    [is_dict |-> FALSE, status |-> "", out_is_str |-> FALSE, output |-> <<>>]

\* A result is None, a str, or an object; an object may have a 'raw'
\* attribute, which is a dict holding 'task_results' or something else;
\* repr is what str(result) gives, unless __str__ itself raises.
ResultNone ==
    [kind |-> "none", text |-> <<>>, has_raw |-> FALSE, raw_is_dict |-> FALSE,
     tasks |-> <<>>, repr |-> <<"N", "o", "n", "e">>, str_raises |-> FALSE]

ResultStr(t) ==
    [kind |-> "str", text |-> t, has_raw |-> FALSE, raw_is_dict |-> FALSE,
     tasks |-> <<>>, repr |-> t, str_raises |-> FALSE]

ResultObj(has_raw, raw_is_dict, tasks, repr, str_raises) ==
    [kind |-> "obj", text |-> <<>>, has_raw |-> has_raw, raw_is_dict |-> raw_is_dict,
     tasks |-> tasks, repr |-> repr, str_raises |-> str_raises]

\* bool(result)
Truthy(r) ==
    CASE r.kind = "none" -> FALSE
      [] r.kind = "str" -> r.text # <<>>
      [] OTHER -> TRUE

\* What a call gives: a value, or an exception leaving the function.
Value(v) == [raised |-> FALSE, value |-> v]

Raise == [raised |-> TRUE, value |-> <<>>]

\* str(result)
ToStr(r) == IF r.str_raises THEN Raise ELSE Value(r.repr)

\* The part of both extractors that handles one selected output.
FinalAnswer(output) ==
    IF Contains(output, Marker) THEN Strip(AfterFirst(output, Marker)) ELSE output

\* Variant of ScanTasks that walks task_results first to last; i counts
\* the tasks still to be visited.
RECURSIVE ScanTasks_Forward(_, _)
ScanTasks_Forward(tasks, i) ==
    IF i = 0 THEN [how |-> "nomatch", value |-> <<>>]
    ELSE LET t == tasks[Len(tasks) - i + 1]
         IN  IF ~t.is_dict THEN [how |-> "raise", value |-> <<>>]
             ELSE IF t.status = "completed" /\ t.out_is_str /\ t.output # <<>>
             THEN [how |-> "return", value |-> FinalAnswer(t.output)]
             ELSE ScanTasks_Forward(tasks, i - 1)

\* for task in reversed(task_results): ... from position i downwards.
\* Gives the returned text, "raise" when a task is no dict (task.get
\* fails), or "nomatch" when the loop ends.
RECURSIVE ScanTasks(_, _)
ScanTasks(tasks, i) ==
    IF i = 0 THEN [how |-> "nomatch", value |-> <<>>]
    ELSE LET t == tasks[i]
         IN  IF ~t.is_dict THEN [how |-> "raise", value |-> <<>>]
             ELSE IF t.status = "completed" /\ t.out_is_str /\ t.output # <<>>
             THEN [how |-> "return", value |-> FinalAnswer(t.output)]
             ELSE ScanTasks(tasks, i - 1)

DiagnosticText == <<"E", "r", "r", "o", "r">>

\* Variant of ExtractBody that returns an empty text when no outcome is
\* accepted.
ExtractBody_EmptyOnNoMatch(r) ==
    IF Truthy(r) /\ r.has_raw
    THEN IF ~r.raw_is_dict THEN Raise
         ELSE LET s == ScanTasks(r.tasks, Len(r.tasks))
              IN  CASE s.how = "return" -> Value(s.value)
                    [] s.how = "raise" -> Raise
                    [] OTHER -> Value(<<>>)
    ELSE ToStr(r)

\* main.py: the body of the try block.
ExtractBody(r) ==
    IF Truthy(r) /\ r.has_raw
    THEN IF ~r.raw_is_dict THEN Raise
         ELSE LET s == ScanTasks(r.tasks, Len(r.tasks))
              IN  CASE s.how = "return" -> Value(s.value)
                    [] s.how = "raise" -> Raise
                    [] OTHER -> ToStr(r)
    ELSE ToStr(r)

\* Variant of extract_report_from_result that looks for the marker in a
\* plain-text result as well.
extract_report_from_result_StripPlain(r) ==
    IF r.kind = "str" THEN Value(FinalAnswer(r.text))
    ELSE IF ExtractBody(r).raised THEN ToStr(r) ELSE ExtractBody(r)

\* main.py: the except branch returns str(result), which is evaluated
\* outside any handler.
extract_report_from_result(r) ==
    IF ExtractBody(r).raised THEN ToStr(r) ELSE ExtractBody(r)

\* crew.py: the body of the try block.
FinalReportBody(r) ==
    IF r.kind = "str" THEN Value(r.text)
    ELSE IF r.has_raw /\ r.raw_is_dict
    THEN LET s == ScanTasks(r.tasks, Len(r.tasks))
         IN  CASE s.how = "return" -> Value(s.value)
               [] s.how = "raise" -> Raise
               [] OTHER -> ToStr(r)
    ELSE ToStr(r)

get_final_report_text(r) ==
    IF FinalReportBody(r).raised THEN Value(DiagnosticText) ELSE FinalReportBody(r)

----------------------------------------------------------------------------
(* Values the variables hold while a part of the program is not in use *)

NoResult == ResultNone

NoCall == [cols |-> <<>>, required |-> <<>>, ret |-> FALSE]

NoEnv == [libs |-> FALSE, rich |-> "none", md |-> "none"]

\* The pipeline variables in a specification of a single function.
PipelineUnused ==
    /\ chroma = "absent"
    /\ reportsDir = FALSE
    /\ reports = {}
    /\ result = NoResult
    /\ report_content = <<>>
    /\ artifact = None
    /\ outcome = "running"
    /\ events = <<>>
    /\ prompts = 0
    /\ clock = 0
    /\ pdf_available = FALSE
    /\ renv = NoEnv

CorkDirs == {DefaultCork, "test_database/cork"}

\* An extract left behind by an earlier command (of some other record).
StaleExtract == ExtractFile(<<"City">>, << <<Cell(9, "City")>> >>)

StaleDir == [f \in StagingNames |->
                CASE f = "property.csv" -> StaleExtract
                  [] f = "enviornmental.csv" -> ExtractFile(<<"In SFHA">>, << <<Cell(9, "In SFHA")>> >>)
                  [] f = "notes.txt" -> UserFile
                  [] OTHER -> NoFile]

----------------------------------------------------------------------------
(* Specification of validate_data alone *)

TestColumns == {"col1", "col2", "col3", "col4"}

InitValidate ==
    /\ master = NoDataset
    /\ dirExists = [d \in CorkDirs |-> FALSE]
    /\ staging = [d \in CorkDirs |-> EmptyDir]
    /\ pc = "ready"
    /\ cmd = "validate_data"
    /\ cork_path = DefaultCork
    /\ stock_number = NaN
    /\ inputs = None
    /\ PipelineUnused
    /\ \E cols \in {s \in SeqsUpTo(TestColumns, MaxCols) : NoRepeat(s)},
          req \in SeqsUpTo(TestColumns, MaxReq) :
            vcall = [cols |-> cols, required |-> req, ret |-> FALSE]

Validate ==
    /\ pc = "ready"
    /\ cmd = "validate_data"
    /\ vcall' = [vcall EXCEPT !.ret = validate_data(vcall.cols, vcall.required)]
    /\ pc' = "returned"
    /\ UNCHANGED <<master, chroma, dirExists, staging, reportsDir, reports, cmd,
                   cork_path, stock_number, inputs, result, report_content,
                   artifact, outcome, events, prompts, clock, pdf_available, renv>>

NextValidate == Validate

SpecValidate == InitValidate /\ [][NextValidate]_vars

----------------------------------------------------------------------------
(* Specification of process_master_csv alone: any dataset, any requested  *)
(* identifier, either staging directory                                   *)

SegColumns == {"StockNumber", "City", "State", "In SFHA", "Notes"}

SegDatasets ==
    {NoDataset} \cup
    {[exists |-> TRUE, cols |-> c, ids |-> i] :
        c \in {s \in SeqsUpTo(SegColumns, MaxCols) : NoRepeat(s)},
        i \in SeqsUpTo(RawIds, MaxRows)}

\* Identifiers a caller may ask for: text, a number, NaN.
RequestedIds == {StrVal("A1"), StrVal("2"), StrVal("ZZ"), NumVal(2), NaN}

InitSeg ==
    /\ master \in {ds \in SegDatasets :
                      ~HasColumn(ds, "StockNumber") => ds.ids = <<>>}
    /\ \E d \in CorkDirs, stale \in BOOLEAN :
          /\ dirExists = [x \in CorkDirs |-> x = d]
          /\ staging = [x \in CorkDirs |->
                           IF x = d /\ stale THEN StaleDir ELSE EmptyDir]
    /\ pc = "ready"
    /\ cmd = "process_master_csv"
    /\ cork_path \in CorkDirs
    /\ stock_number \in RequestedIds
    /\ inputs = None
    /\ PipelineUnused
    /\ vcall = NoCall

CallProcess ==
    /\ pc = "ready"
    /\ cmd = "process_master_csv"
    /\ LET r == process_master_csv(master, stock_number, cork_path,
                                   dirExists[cork_path], staging[cork_path])
       IN  /\ inputs' = r.ret
           /\ staging' = [staging EXCEPT ![cork_path] = r.files]
           /\ events' = r.log
    /\ pc' = "returned"
    /\ UNCHANGED <<master, chroma, dirExists, reportsDir, reports, cmd,
                   cork_path, stock_number, result, report_content,
                   artifact, outcome, prompts, clock, pdf_available, renv, vcall>>

NextSeg == CallProcess

SpecSeg == InitSeg /\ [][NextSeg]_vars

----------------------------------------------------------------------------
(* Claims about validate_data and process_master_csv *)

Returned(c) == pc = "returned" /\ cmd = c

Written(dir, f) == Event("write", dir, f) \in Range(events)

\* The declared columns of segment k that the dataset has.
Present(k) == Range(Segments[k].cols) \cap Range(master.cols)

InDeclaredOrder(header, declared) ==
    /\ NoRepeat(header)
    /\ Range(header) \subseteq Range(declared)
    /\ \A i, j \in 1..Len(header) :
          i < j => ColumnPos(declared, header[i]) < ColumnPos(declared, header[j])

RequestedInDataset ==
    /\ master.exists
    /\ HasColumn(master, "StockNumber")
    /\ \E i \in 1..Len(master.ids) : PdEq(ReadColumn(master.ids)[i], stock_number)

\* C1: every extract file written by process_master_csv has as its columns
\* exactly the declared columns of its segment that the dataset has, in the
\* declared order; a segment with no declared column in the dataset gets no
\* file.
C1_ExtractColumns ==
    Returned("process_master_csv") =>
        \A k \in SegmentIds :
            LET f == Segments[k].file
                file == staging[cork_path][f]
            IN  /\ Written(cork_path, f) =>
                      /\ file.kind = "extract"
                      /\ Range(file.header) = Present(k)
                      /\ InDeclaredOrder(file.header, Segments[k].cols)
                /\ Present(k) = {} => ~Written(cork_path, f)

\* A property extract with two columns was written from a dataset that
\* holds them in the opposite order, and another segment got no file.
C1_Witness ==
    /\ Returned("process_master_csv")
    /\ inputs.ok
    /\ Written(cork_path, "property.csv")
    /\ staging[cork_path]["property.csv"].header = <<"City", "State">>
    /\ ColumnPos(master.cols, "State") < ColumnPos(master.cols, "City")
    /\ ~Written(cork_path, "enviornmental.csv")

\* C2: validate_data returns true exactly when at least one required column
\* is present, and so false only when none is.
C2_ValidateIffSomePresent ==
    Returned("validate_data") =>
        (vcall.ret <=> \E i \in 1..Len(vcall.required) :
                            vcall.required[i] \in Range(vcall.cols))

\* True although a required column is missing.
C2_Witness ==
    /\ Returned("validate_data")
    /\ vcall.ret
    /\ \E i \in 1..Len(vcall.required) : vcall.required[i] \notin Range(vcall.cols)

\* C7: for an identifier that no row of the dataset has (the dataset may
\* even be missing or lack the key column), process_master_csv writes no
\* extract file and returns None; the call has no raising outcome.
C7_NotFoundWritesNothing ==
    (Returned("process_master_csv") /\ ~RequestedInDataset) =>
        /\ inputs = None
        /\ events = <<>>
        /\ staging[cork_path] \in {EmptyDir, StaleDir}

\* The identifier is missing from a dataset that has rows and declared
\* columns, with the staging directory in place.
C7_Witness ==
    /\ Returned("process_master_csv")
    /\ master.exists
    /\ HasColumn(master, "StockNumber")
    /\ Len(master.ids) > 0
    /\ ~RequestedInDataset
    /\ Present(1) # {}
    /\ dirExists[cork_path]
    /\ inputs = None

\* C8: a segment none of whose declared columns exists in the dataset gets
\* no file and no entry in the returned mapping.
C8_SkippedSegmentAbsent ==
    (Returned("process_master_csv") /\ inputs.ok) =>
        \A k \in SegmentIds :
            Present(k) = {} =>
                /\ ~Written(cork_path, Segments[k].file)
                /\ Segments[k].key \notin DOMAIN inputs

----------------------------------------------------------------------------
(* Report files: pdf_generator.py and save_markdown_report of main.py *)

ReportsPath == "reports"

\* The listing id as the commands pass it: the identifier, with the
\* command's decoration ("", "_training", "replay_").
Listing(id, tag) == [id |-> id, tag |-> tag]

\* Variant of ReportPath that leaves the timestamp out of the file name.
ReportPath_NoTimestamp(dir, listing, ts, ext) ==
    [ok |-> TRUE, dir |-> dir, listing |-> listing, ts |-> 0, ext |-> ext]

\* <dir>/Land_Evaluation_{listing_id}_{timestamp}.{ext}
ReportPath(dir, listing, ts, ext) ==
    [ok |-> TRUE, dir |-> dir, listing |-> listing, ts |-> ts, ext |-> ext]

\* A file of the reports directory: its path, the text it was made from
\* and whether the write ran to its end.
ReportFile(path, text, complete) ==
    [path |-> path, text |-> text, complete |-> complete]

\* Writing a path replaces the file that was there.
WriteReport(files, f) == {g \in files : g.path # f.path} \cup {f}

\* How the environment treats one render call: whether the PDF libraries
\* can be imported, whether the PDF conversion succeeds, fails before
\* anything is written ("fail") or fails while write_pdf is writing
\* ("partial"), and whether the markdown write succeeds.  The conversion
\* is not attempted without the libraries, nor the markdown write after a
\* successful conversion: those fields are then "none".
RenderEnvs ==
    {e \in [libs : BOOLEAN, rich : {"ok", "fail", "partial", "none"},
                             md : {"ok", "fail", "none"}] :
        /\ (e.rich = "none") <=> ~e.libs
        /\ (e.md = "none") <=> (e.libs /\ e.rich = "ok")}

\* The directory a report goes to: output_path, or "." when none is given.
DirOf(output_path) == IF output_path = "None" THEN "." ELSE output_path

_save_markdown_fallback_NoListing(content, output_path, listing, ts, env, files) ==
    IF env.md = "ok"
    THEN LET path == ReportPath(DirOf(output_path), Listing(NaN, ""), ts, "md")
         IN  [ret |-> path, files |-> WriteReport(files, ReportFile(path, content, TRUE))]
    ELSE [ret |-> None, files |-> files]

\* Variant of _save_markdown_fallback that writes into ./reports whatever
\* directory was asked for.
_save_markdown_fallback_FixedDir(content, output_path, listing, ts, env, files) ==
    IF env.md = "ok"
    THEN LET path == ReportPath(ReportsPath, listing, ts, "md")
         IN  [ret |-> path, files |-> WriteReport(files, ReportFile(path, content, TRUE))]
    ELSE [ret |-> None, files |-> files]

\* _save_markdown_fallback: the content written verbatim under
\* output_path, or None on any exception.
_save_markdown_fallback(content, output_path, listing, ts, env, files) ==
    IF env.md = "ok"
    THEN LET path == ReportPath(DirOf(output_path), listing, ts, "md")
         IN  [ret |-> path, files |-> WriteReport(files, ReportFile(path, content, TRUE))]
    ELSE [ret |-> None, files |-> files]

\* save_markdown_report of main.py: the same body, always under ./reports.
save_markdown_report(content, listing, ts, env, files) ==
    IF env.md = "ok"
    THEN LET path == ReportPath(ReportsPath, listing, ts, "md")
         IN  [ret |-> path, files |-> WriteReport(files, ReportFile(path, content, TRUE))]
    ELSE [ret |-> None, files |-> files]

\* Variant of generate_pdf_report that keeps the rich path closed once a
\* call has found it unavailable or failing.
generate_pdf_report_Cached(content, output_path, listing, ts, env, files) ==
    LET pdf == ReportPath(DirOf(output_path), listing, ts, "pdf")
        broken == renv # NoEnv /\ (~renv.libs \/ renv.rich # "ok")
    IN  IF env.libs /\ env.rich = "ok" /\ ~broken
        THEN [ret |-> pdf,
              files |-> WriteReport(files, ReportFile(pdf, content, TRUE))]
        ELSE _save_markdown_fallback(content, output_path, listing, ts, env, files)

generate_pdf_report(content, output_path, listing, ts, env, files) ==
    LET pdf == ReportPath(DirOf(output_path), listing, ts, "pdf")
    IN  IF env.libs
        THEN CASE env.rich = "ok" ->
                    [ret |-> pdf,
                     files |-> WriteReport(files, ReportFile(pdf, content, TRUE))]
               [] env.rich = "partial" ->
                    _save_markdown_fallback(content, output_path, listing, ts, env,
                        WriteReport(files, ReportFile(pdf, content, FALSE)))
               [] OTHER ->
                    _save_markdown_fallback(content, output_path, listing, ts, env, files)
        ELSE _save_markdown_fallback(content, output_path, listing, ts, env, files)

----------------------------------------------------------------------------
(* The commands of main.py: run, train, replay *)

Commands == {"run", "train", "replay"}

TextX == <<"X">>

TextY == <<"Y">>

TextRepr == <<"<", "o", ">">>

\* Results the engine hands back in the pipeline specification.
EngineResults ==
    { ResultStr(TextY),
      ResultStr(<<>>),
      ResultNone,
      ResultObj(FALSE, FALSE, <<>>, TextRepr, FALSE),
      ResultObj(TRUE, FALSE, <<>>, TextRepr, FALSE),
      ResultObj(TRUE, FALSE, <<>>, TextRepr, TRUE),
      ResultObj(TRUE, TRUE, <<TaskDict("completed", Marker \o <<" ">> \o TextX)>>, TextRepr, FALSE),
      ResultObj(TRUE, TRUE, <<TaskNotDict>>, TextRepr, FALSE) }

\* Datasets of the pipeline specification: none, one without the key
\* column, one with declared columns and one with none of them.
PipelineDatasets ==
    {NoDataset, [exists |-> TRUE, cols |-> <<"City", "State">>, ids |-> <<>>]}
    \cup {[exists |-> TRUE, cols |-> c, ids |-> i] :
            c \in {<<"StockNumber", "State", "City", "In SFHA">>, <<"StockNumber", "Notes">>},
            i \in SeqsUpTo(RawIds, MaxRows)}

\* What the operator may type at the prompt.
Choices == {"1", "2", "3", "A1", "zz"}

\* A report left by an earlier command.
OldReport ==
    ReportFile(ReportPath(ReportsPath, Listing(StrVal("A1"), ""), 0, "md"), TextY, TRUE)

Init ==
    /\ master \in PipelineDatasets
    /\ \E before \in {"fresh", "succeeded", "failed"} :
          /\ chroma = IF before = "fresh" THEN "absent" ELSE "data"
          /\ dirExists = [d \in CorkDirs |-> d = DefaultCork /\ before # "fresh"]
          /\ staging = [d \in CorkDirs |->
                           IF d = DefaultCork /\ before = "failed"
                           THEN StaleDir ELSE EmptyDir]
          /\ reportsDir = (before = "succeeded")
          /\ reports = IF before = "succeeded" THEN {OldReport} ELSE {}
    /\ pdf_available \in BOOLEAN
    /\ pc = "idle"
    /\ cmd = "none"
    /\ cork_path = "None"
    /\ stock_number = NaN
    /\ inputs = None
    /\ result = NoResult
    /\ report_content = <<>>
    /\ artifact = None
    /\ outcome = "running"
    /\ events = <<>>
    /\ prompts = 0
    /\ clock \in (IF reports = {} THEN {1} ELSE {0, 1})
    /\ renv = NoEnv
    /\ vcall = NoCall

Log(e) == events' = Append(events, e)

\* The command ends: by a return, or in one of its except branches.
Finish(how) == pc' = "done" /\ outcome' = how

\* __main__ dispatches the command; train and replay first check argv.
Start(c, argv_ok) ==
    /\ pc = "idle"
    /\ cmd' = c
    /\ IF c # "run" /\ ~argv_ok
       THEN Finish("usage")
       ELSE /\ pc' = IF c = "replay" THEN "engine" ELSE "chroma"
            /\ UNCHANGED outcome
    /\ UNCHANGED <<master, chroma, dirExists, staging, reportsDir, reports,
                   cork_path, stock_number, inputs, result, report_content,
                   artifact, events, prompts, clock, pdf_available, renv, vcall>>

\* cleanup_chroma_database: the directory is removed and recreated, or
\* created; its exceptions are swallowed.
cleanup_chroma_database ==
    /\ pc = "chroma"
    /\ chroma' = "empty"
    /\ events' = events \o
          (IF chroma # "absent" THEN <<Event("rmtree", "chroma_vectordb", "")>> ELSE <<>>)
          \o <<Event("mkdir", "chroma_vectordb", "")>>
    /\ pc' = "cork"
    /\ UNCHANGED <<master, dirExists, staging, reportsDir, reports, cmd,
                   cork_path, stock_number, inputs, result, report_content,
                   artifact, outcome, prompts, clock, pdf_available, renv, vcall>>

\* create_cork_folder: mkdir unless the directory exists; a failing mkdir
\* is re-raised and ends the command.
create_cork_folder(mkdir_ok) ==
    /\ pc = "cork"
    /\ IF dirExists[DefaultCork]
       THEN /\ cork_path' = DefaultCork
            /\ pc' = "select"
            /\ UNCHANGED <<dirExists, events, outcome>>
       ELSE IF mkdir_ok
       THEN /\ dirExists' = [dirExists EXCEPT ![DefaultCork] = TRUE]
            /\ Log(Event("mkdir", DefaultCork, ""))
            /\ cork_path' = DefaultCork
            /\ pc' = "select"
            /\ UNCHANGED outcome
       ELSE /\ Finish("error")
            /\ UNCHANGED <<dirExists, events, cork_path>>
    /\ UNCHANGED <<master, chroma, staging, reportsDir, reports, cmd,
                   stock_number, inputs, result, report_content,
                   artifact, prompts, clock, pdf_available, renv, vcall>>

\* master_df['StockNumber'].tolist()
AvailableStocks(ds) == ReadColumn(ds.ids)

\* get_stock_number, up to the prompt: FileNotFoundError, KeyError or
\* ValueError, logged and re-raised to the command.
CannotSelect(ds) ==
    \/ ~ds.exists
    \/ ~HasColumn(ds, "StockNumber")
    \/ AvailableStocks(ds) = <<>>

get_stock_number_raises_Swallowed ==
    /\ pc = "select"
    /\ CannotSelect(master)
    /\ pc' = "process"
    /\ UNCHANGED <<master, chroma, dirExists, staging, reportsDir, reports, cmd,
                   cork_path, stock_number, inputs, result, report_content,
                   artifact, outcome, events, prompts, clock, pdf_available,
                   renv, vcall>>

get_stock_number_raises ==
    /\ pc = "select"
    /\ CannotSelect(master)
    /\ Finish("error")
    /\ UNCHANGED <<master, chroma, dirExists, staging, reportsDir, reports, cmd,
                   cork_path, stock_number, inputs, result, report_content,
                   artifact, events, prompts, clock, pdf_available, renv, vcall>>

IsIndex(choice, stocks) ==
    IsDigit(choice) /\ 1 <= IntOf(choice) /\ IntOf(choice) <= Len(stocks)

\* choice in available_stocks: a str equals only an equal str.
IsListed(choice, stocks) == StrVal(choice) \in Range(stocks)

\* The answer given at the prompt.
SelectCallOf(choice) == [choice |-> choice]

\* Variant of get_stock_number that takes the first identifier of the
\* list on an invalid answer instead of asking again.
get_stock_number_FirstOnInvalid(choice) ==
    /\ pc = "select"
    /\ ~CannotSelect(master)
    /\ vcall' = SelectCallOf(choice)
    /\ LET stocks == AvailableStocks(master)
       IN  IF IsIndex(choice, stocks)
           THEN stock_number' = stocks[IntOf(choice)]
           ELSE IF IsListed(choice, stocks)
           THEN stock_number' = StrVal(choice)
           ELSE stock_number' = stocks[1]
    /\ pc' = "process"
    /\ UNCHANGED <<master, chroma, dirExists, staging, reportsDir, reports, cmd,
                   cork_path, inputs, result, report_content, artifact,
                   outcome, events, prompts, clock, pdf_available, renv>>

\* get_stock_number: one answer at the prompt.
get_stock_number(choice) ==
    /\ pc = "select"
    /\ ~CannotSelect(master)
    /\ vcall' = SelectCallOf(choice)
    /\ LET stocks == AvailableStocks(master)
       IN  IF IsIndex(choice, stocks)
           THEN /\ stock_number' = stocks[IntOf(choice)]
                /\ pc' = "process"
                /\ UNCHANGED prompts
           ELSE IF IsListed(choice, stocks)
           THEN /\ stock_number' = StrVal(choice)
                /\ pc' = "process"
                /\ UNCHANGED prompts
           ELSE /\ prompts < MaxPrompts
                /\ prompts' = prompts + 1
                /\ UNCHANGED <<stock_number, pc>>
    /\ UNCHANGED <<master, chroma, dirExists, staging, reportsDir, reports, cmd,
                   cork_path, inputs, result, report_content, artifact,
                   outcome, events, clock, pdf_available, renv>>

\* Ctrl-C or end of input at the prompt.
get_stock_number_interrupted ==
    /\ pc = "select"
    /\ ~CannotSelect(master)
    /\ Finish("interrupted")
    /\ UNCHANGED <<master, chroma, dirExists, staging, reportsDir, reports, cmd,
                   cork_path, stock_number, inputs, result, report_content,
                   artifact, events, prompts, clock, pdf_available, renv, vcall>>

\* inputs = process_master_csv(stock_number, cork_path); if not inputs: return
Segment ==
    /\ pc = "process"
    /\ LET r == process_master_csv(master, stock_number, cork_path,
                                   dirExists[cork_path], staging[cork_path])
       IN  /\ inputs' = r.ret
           /\ staging' = [staging EXCEPT ![cork_path] = r.files]
           /\ events' = events \o r.log
           /\ IF r.ret = None
              THEN Finish("failed")
              ELSE pc' = "engine" /\ UNCHANGED outcome
    /\ UNCHANGED <<master, chroma, dirExists, reportsDir, reports, cmd,
                   cork_path, stock_number, result, report_content,
                   artifact, prompts, clock, pdf_available, renv, vcall>>

\* crew().kickoff / train / replay: returns some result, or raises.
Engine(r, raises) ==
    /\ pc = "engine"
    /\ Log(Event("engine", "", ""))
    /\ IF raises
       THEN Finish("error") /\ UNCHANGED result
       ELSE /\ result' = r
            /\ pc' = IF cmd = "replay" THEN "extract" ELSE "cleanup"
            /\ UNCHANGED outcome
    /\ UNCHANGED <<master, chroma, dirExists, staging, reportsDir, reports, cmd,
                   cork_path, stock_number, inputs, report_content,
                   artifact, prompts, clock, pdf_available, renv, vcall>>

CsvFiles(files) == {f \in StagingNames : IsCsv(f) /\ files[f].kind # "none"}

\* What cleanup_cork_folder may find itself deleting: any of the *.csv
\* files, and nothing when the directory does not exist.
CanDelete(exists, files, deleted) ==
    /\ deleted \subseteq CsvFiles(files)
    /\ exists \/ deleted = {}

\* The loop ended without an exception.
CleanupOutcome(files, deleted) ==
    IF deleted = CsvFiles(files) THEN "ok" ELSE "error"

\* Variant of CleanupEffect that removes the directory and all it holds.
CleanupEffect_Rmtree(exists, files, deleted) ==
    [exists |-> FALSE, files |-> EmptyDir]

\* Variant of CleanupEffect that creates the directory when it is missing.
CleanupEffect_Mkdir(exists, files, deleted) ==
    [exists |-> TRUE,
     files |-> [f \in StagingNames |-> IF f \in deleted THEN NoFile ELSE files[f]]]

\* The directory after cleanup_cork_folder: the files in deleted are
\* unlinked, nothing else is touched.
CleanupEffect(exists, files, deleted) ==
    [exists |-> exists,
     files |-> [f \in StagingNames |-> IF f \in deleted THEN NoFile ELSE files[f]]]

\* Variant of cleanup_cork_folder that lets a file-system error leave the
\* function.
cleanup_cork_folder_Reraises(deleted) ==
    /\ pc = "cleanup"
    /\ CanDelete(dirExists[cork_path], staging[cork_path], deleted)
    /\ LET r == CleanupEffect(dirExists[cork_path], staging[cork_path], deleted)
       IN  /\ staging' = [staging EXCEPT ![cork_path] = r.files]
           /\ dirExists' = [dirExists EXCEPT ![cork_path] = r.exists]
    /\ Log(Event("cleanup", cork_path, CleanupOutcome(staging[cork_path], deleted)))
    /\ IF CleanupOutcome(staging[cork_path], deleted) = "ok"
       THEN pc' = "extract" /\ UNCHANGED outcome
       ELSE Finish("error")
    /\ UNCHANGED <<master, chroma, reportsDir, reports, cmd,
                   cork_path, stock_number, inputs, result, report_content,
                   artifact, prompts, clock, pdf_available, renv, vcall>>

\* cleanup_cork_folder: unlinks the *.csv files of the directory one by
\* one; an exception on the way is logged and swallowed, so the files in
\* deleted are gone and the others are left.
cleanup_cork_folder(deleted) ==
    /\ pc = "cleanup"
    /\ CanDelete(dirExists[cork_path], staging[cork_path], deleted)
    /\ LET r == CleanupEffect(dirExists[cork_path], staging[cork_path], deleted)
       IN  /\ staging' = [staging EXCEPT ![cork_path] = r.files]
           /\ dirExists' = [dirExists EXCEPT ![cork_path] = r.exists]
    /\ Log(Event("cleanup", cork_path, CleanupOutcome(staging[cork_path], deleted)))
    /\ pc' = "extract"
    /\ UNCHANGED <<master, chroma, reportsDir, reports, cmd,
                   cork_path, stock_number, inputs, result, report_content,
                   artifact, outcome, prompts, clock, pdf_available, renv, vcall>>

\* Variant of Extract without the truthiness test on the extracted text.
Extract_AlwaysRender ==
    /\ pc = "extract"
    /\ Log(Event("extract", "", ""))
    /\ LET x == extract_report_from_result(result)
       IN  IF x.raised
           THEN Finish("error") /\ UNCHANGED report_content
           ELSE /\ report_content' = x.value
                /\ pc' = "render"
                /\ UNCHANGED outcome
    /\ UNCHANGED <<master, chroma, dirExists, staging, reportsDir, reports, cmd,
                   cork_path, stock_number, inputs, result, artifact,
                   prompts, clock, pdf_available, renv, vcall>>

\* report_content = extract_report_from_result(result); if report_content: ...
Extract ==
    /\ pc = "extract"
    /\ Log(Event("extract", "", ""))
    /\ LET x == extract_report_from_result(result)
       IN  IF x.raised
           THEN Finish("error") /\ UNCHANGED report_content
           ELSE /\ report_content' = x.value
                /\ IF x.value # <<>>
                   THEN pc' = "render" /\ UNCHANGED outcome
                   ELSE Finish("returned")
    /\ UNCHANGED <<master, chroma, dirExists, staging, reportsDir, reports, cmd,
                   cork_path, stock_number, inputs, result, artifact,
                   prompts, clock, pdf_available, renv, vcall>>

\* listing_id as each command builds it for the renderer.
ListingOf(c, inp) ==
    CASE c = "run" -> Listing(inp.listing_id, "")
      [] c = "train" -> Listing(inp.listing_id, "_training")
      [] OTHER -> Listing(StrVal("task"), "replay_")

\* create_reports_folder, then generate_pdf_report when the module could be
\* imported and save_markdown_report otherwise.
Render(env) ==
    /\ pc = "render"
    /\ env \in RenderEnvs
    /\ pdf_available \/ ~env.libs
    /\ reportsDir' = TRUE
    /\ renv' = env
    /\ LET listing == ListingOf(cmd, inputs)
           r == IF pdf_available
                THEN generate_pdf_report(report_content, ReportsPath, listing, clock, env, reports)
                ELSE save_markdown_report(report_content, listing, clock, env, reports)
       IN  /\ artifact' = r.ret
           /\ reports' = r.files
    /\ Log(Event("render", ReportsPath, ""))
    /\ Finish("returned")
    /\ UNCHANGED <<master, chroma, dirExists, staging, cmd, cork_path,
                   stock_number, inputs, result, report_content,
                   prompts, clock, pdf_available, vcall>>

Next ==
    \/ \E c \in Commands, argv_ok \in BOOLEAN : Start(c, argv_ok)
    \/ cleanup_chroma_database
    \/ \E mkdir_ok \in BOOLEAN : create_cork_folder(mkdir_ok)
    \/ get_stock_number_raises
    \/ \E choice \in Choices : get_stock_number(choice)
    \/ get_stock_number_interrupted
    \/ Segment
    \/ \E r \in EngineResults, raises \in BOOLEAN : Engine(r, raises)
    \/ \E deleted \in SUBSET ExtractNames : cleanup_cork_folder(deleted)
    \/ Extract
    \/ \E env \in RenderEnvs : Render(env)

Spec == Init /\ [][Next]_vars

----------------------------------------------------------------------------
(* Claims about the commands *)

Done(c) == pc = "done" /\ cmd = c

Happened(op) == \E i \in 1..Len(events) : events[i].op = op

\* The dataset cannot give an identifier: no file, or no StockNumber column.
NoKey == ~master.exists \/ ~HasColumn(master, "StockNumber")

\* A render call returned the path of a file.
Delivered == Happened("render") /\ artifact # None

\* An extract written by this command is no longer in the staging directory.
ExtractGone(f) ==
    /\ Written(DefaultCork, f)
    /\ staging[DefaultCork][f].kind = "none"

\* The staging and report directories hold what they held at the start.
FilesUntouched ==
    /\ staging[DefaultCork] \in {EmptyDir, StaleDir}
    /\ reports \subseteq {OldReport}
    /\ reportsDir = (reports # {})

\* The only file-system operations so far: ./chroma_vectordb reset, the
\* staging directory created.
OnlyDirectorySetup ==
    \A i \in 1..Len(events) :
        \/ events[i].op \in {"rmtree", "mkdir"} /\ events[i].dir = "chroma_vectordb"
        \/ events[i].op = "mkdir" /\ events[i].dir = DefaultCork

\* C3: in a run, an extract is deleted only after the report has been
\* rendered successfully; on a failure of the engine, the extraction or the
\* rendering the extracts are still in the staging directory.
C3_ExtractsDeletedOnlyAfterRender ==
    cmd = "run" => \A f \in ExtractNames : ExtractGone(f) => Delivered

\* The render call of generate_pdf_report has returned.
GenerateReturned == pc = "done" /\ Happened("render") /\ pdf_available

RichFailed == ~renv.libs \/ renv.rich \in {"fail", "partial"}

ArtifactWritten ==
    \E f \in reports :
        /\ f.path = artifact
        /\ f.text = report_content
        /\ f.complete

FallbackArtifact ==
    /\ artifact.ext = "md"
    /\ artifact.listing = ListingOf(cmd, inputs)

C5_ExtractionNeverPropagates ==
    (Happened("extract") /\ ExtractBody(result).raised) =>
        /\ outcome # "error"
        /\ report_content = DiagnosticText

FatalRun == Done("run") /\ (NoKey \/ outcome = "failed")

C10_NoEngineWithoutKey ==
    (cmd \in {"run", "train"} /\ NoKey) =>
        /\ ~Happened("engine")
        /\ pc \notin {"process", "engine", "cleanup", "extract", "render"}
        /\ pc = "done" => outcome \in {"error", "usage"}

C10_Witness ==
    /\ Done("run")
    /\ ~master.exists
    /\ outcome = "error"
    /\ dirExists[DefaultCork]

\* The engine call of the command returned: the stage after it was reached.
EngineReturned == Happened("extract")

\* C11 as claimed: every command whose engine call returned goes on to a
\* render call, whatever the engine returned.
C11_EveryResultRendered ==
    (pc = "done" /\ EngineReturned) => Happened("render")

\* C11: a command whose engine call returned makes a render call exactly
\* when the extractor returned a non-empty text; with an empty text, or
\* when the extractor raised, it ends without a render call.
C11_RenderedIffNonEmptyText ==
    (pc = "done" /\ EngineReturned) =>
        (Happened("render") <=>
            /\ ~extract_report_from_result(result).raised
            /\ extract_report_from_result(result).value # <<>>)

\* A result without task outcomes was rendered from its str() form.
C11_Witness ==
    /\ Done("run")
    /\ EngineReturned
    /\ result = ResultObj(TRUE, FALSE, <<>>, TextRepr, FALSE)
    /\ Happened("render")
    /\ report_content = TextRepr

----------------------------------------------------------------------------
(* Specification of the two extractors alone: any engine result           *)

MaxTasks == 2

MaxPieces == 3

RECURSIVE Concat(_)
Concat(ss) == IF ss = <<>> THEN <<>> ELSE Head(ss) \o Concat(Tail(ss))

\* Texts made of the marker, a blank, a line break and a letter.
Pieces == {Marker, <<" ">>, <<"\n">>, TextX}

Texts == {Concat(ps) : ps \in SeqsUpTo(Pieces, MaxPieces)}

\* Entries of raw['task_results'].
TaskPool ==
    { TaskDict("completed", TextX),
      TaskDict("completed", Marker \o <<" ">> \o TextY),
      TaskDict("completed", <<>>),
      TaskDict("failed", TextY),
      TaskOtherOutput("completed"),
      TaskNotDict }

ExtractResults ==
    {ResultNone}
    \cup {ResultStr(t) : t \in Texts}
    \cup {ResultObj(TRUE, TRUE, <<TaskDict("completed", t)>>, TextRepr, FALSE) :
             t \in Texts}
    \cup {ResultObj(raw[1], raw[2], ts, TextRepr, sr) :
             raw \in {<<FALSE, FALSE>>, <<TRUE, FALSE>>, <<TRUE, TRUE>>},
             ts \in SeqsUpTo(TaskPool, MaxTasks),
             sr \in BOOLEAN}

Extractors == {"extract_report_from_result", "get_final_report_text"}

InitExtract ==
    /\ master = NoDataset
    /\ dirExists = [d \in CorkDirs |-> FALSE]
    /\ staging = [d \in CorkDirs |-> EmptyDir]
    /\ pc = "ready"
    /\ cmd \in Extractors
    /\ cork_path = DefaultCork
    /\ stock_number = NaN
    /\ inputs = None
    /\ chroma = "absent"
    /\ reportsDir = FALSE
    /\ reports = {}
    /\ result \in ExtractResults
    /\ report_content = <<>>
    /\ artifact = None
    /\ outcome = "running"
    /\ events = <<>>
    /\ prompts = 0
    /\ clock = 0
    /\ pdf_available = FALSE
    /\ renv = NoEnv
    /\ vcall = NoCall

\* One call of the extractor named by cmd on the result.
CallExtract ==
    /\ pc = "ready"
    /\ cmd \in Extractors
    /\ LET x == IF cmd = "extract_report_from_result"
                THEN extract_report_from_result(result)
                ELSE get_final_report_text(result)
       IN  /\ report_content' = x.value
           /\ pc' = IF x.raised THEN "raised" ELSE "returned"
    /\ UNCHANGED <<master, chroma, dirExists, staging, reportsDir, reports, cmd,
                   cork_path, stock_number, inputs, result, artifact, outcome,
                   events, prompts, clock, pdf_available, renv, vcall>>

NextExtract == CallExtract

SpecExtract == InitExtract /\ [][NextExtract]_vars

----------------------------------------------------------------------------
(* Claims about the extractors *)

\* A task outcome the scan accepts: completed, with a non-empty text.
Qualifies(t) ==
    /\ t.is_dict
    /\ t.status = "completed"
    /\ t.out_is_str
    /\ t.output # <<>>

QualifyingAt(r) == {i \in 1..Len(r.tasks) : Qualifies(r.tasks[i])}

LastQualifying(r) ==
    CHOOSE i \in QualifyingAt(r) : \A j \in QualifyingAt(r) : j <= i

\* An object whose raw attribute is a dict of task outcomes, with an
\* accepted outcome that is followed by dict outcomes only.
Structured(r) ==
    /\ r.kind = "obj"
    /\ r.has_raw
    /\ r.raw_is_dict
    /\ QualifyingAt(r) # {}
    /\ \A j \in (LastQualifying(r) + 1)..Len(r.tasks) : r.tasks[j].is_dict

\* C12: on a structured result both extractors take the last outcome in
\* the list that is completed with a non-empty text output; of two such
\* outcomes the later one is used.
C12_LastCompletedSelected ==
    (pc # "ready" /\ cmd \in Extractors /\ Structured(result)) =>
        /\ pc = "returned"
        /\ report_content = FinalAnswer(result.tasks[LastQualifying(result)].output)

\* Two accepted outcomes with different outputs: the second one was used.
C12_Witness ==
    /\ pc = "returned"
    /\ cmd \in Extractors
    /\ result.tasks = <<TaskDict("completed", TextX),
                         TaskDict("completed", Marker \o <<" ">> \o TextY)>>
    /\ Structured(result)
    /\ report_content = TextY

\* v is s without its leading and trailing whitespace.
IsStripOf(v, s) ==
    \E a \in 0..Len(s), b \in 0..Len(s) :
        /\ a + b <= Len(s)
        /\ v = SubSeq(s, a + 1, Len(s) - b)
        /\ \A k \in 1..a : s[k] \in Whitespace
        /\ \A k \in (Len(s) - b + 1)..Len(s) : s[k] \in Whitespace
        /\ v # <<>> => (v[1] \notin Whitespace /\ v[Len(v)] \notin Whitespace)

\* v is what follows the first occurrence of the marker in o, stripped.
IsFinalAnswerOf(v, o) ==
    \E i \in 1..Len(o) :
        /\ OccursAt(o, Marker, i)
        /\ \A j \in 1..(i - 1) : ~OccursAt(o, Marker, j)
        /\ IsStripOf(v, SubSeq(o, i + Len(Marker), Len(o)))

\* C13: an output that contains "Final Answer:" is cut to what follows
\* the first occurrence of the marker, stripped of leading and trailing
\* whitespace; an output without the marker is returned verbatim.
C13_FinalAnswerCut ==
    (pc # "ready" /\ cmd \in Extractors /\ Structured(result)) =>
        LET o == result.tasks[LastQualifying(result)].output
        IN  /\ pc = "returned"
            /\ IF Contains(o, Marker)
               THEN IsFinalAnswerOf(report_content, o)
               ELSE report_content = o

\* An output with the marker twice and blanks around the text after the
\* first one.
C13_Witness ==
    /\ pc = "returned"
    /\ cmd \in Extractors
    /\ Structured(result)
    /\ result.tasks[1].output = Marker \o <<" ">> \o Marker
    /\ report_content = Marker

\* An output without the marker, returned with its blanks.
C13_WitnessVerbatim ==
    /\ pc = "returned"
    /\ Structured(result)
    /\ result.tasks[1].output = <<" ">> \o TextX \o <<"\n">>
    /\ report_content = <<" ">> \o TextX \o <<"\n">>

\* C14: a result that is a plain text is returned unchanged by both
\* extractors, the empty text included.
C14_PlainTextUnchanged ==
    (pc # "ready" /\ cmd \in Extractors /\ result.kind = "str") =>
        /\ pc = "returned"
        /\ report_content = result.text

\* A plain text holding the marker came back whole.
C14_Witness ==
    /\ pc = "returned"
    /\ cmd = "extract_report_from_result"
    /\ result.kind = "str"
    /\ result.text = Marker \o <<" ">> \o TextX
    /\ report_content = result.text

\* The empty plain text came back empty.
C14_WitnessEmpty ==
    /\ pc = "returned"
    /\ cmd \in Extractors
    /\ result = ResultStr(<<>>)
    /\ report_content = <<>>

----------------------------------------------------------------------------
(* Specification of the render calls of one process: generate_pdf_report  *)
(* when the module was imported, save_markdown_report otherwise           *)

MaxCalls == 2

\* Directories a caller may ask for; "None" is the default argument.
OutputPaths == {ReportsPath, "None"}

RenderListings == {Listing(StrVal("A1"), ""), Listing(StrVal("A1"), "_training")}

RenderCallOf(content, output_path, listing, ts) ==
    [content |-> content, output_path |-> output_path, listing |-> listing, ts |-> ts]

InitRender ==
    /\ master = NoDataset
    /\ dirExists = [d \in CorkDirs |-> FALSE]
    /\ staging = [d \in CorkDirs |-> EmptyDir]
    /\ pc = "ready"
    /\ cmd = "render"
    /\ cork_path = DefaultCork
    /\ stock_number = NaN
    /\ inputs = None
    /\ chroma = "absent"
    /\ reportsDir = FALSE
    /\ reports = {}
    /\ result = NoResult
    /\ report_content = <<>>
    /\ artifact = None
    /\ outcome = "running"
    /\ events = <<>>
    /\ prompts = 0
    /\ clock = 0
    /\ pdf_available \in BOOLEAN
    /\ renv = NoEnv
    /\ \E l \in RenderListings : vcall = RenderCallOf(<<>>, "None", l, 0)

\* What a render call leaves in the state: the arguments, the environment
\* it met, the returned path, the files, and the clock, which may have
\* moved on by a second when the next call starts.
Rendered(content, output_path, env, r, tick) ==
    /\ vcall' = RenderCallOf(content, output_path, vcall.listing, clock)
    /\ report_content' = content
    /\ renv' = env
    /\ artifact' = r.ret
    /\ reports' = r.files
    /\ clock' = clock + tick
    /\ events' = Append(events, Event("render", DirOf(output_path),
                                      IF r.ret = None THEN "none" ELSE r.ret.ext))
    /\ UNCHANGED <<master, chroma, dirExists, staging, reportsDir, pc, cmd,
                   cork_path, stock_number, inputs, result, outcome, prompts,
                   pdf_available>>

CallGenerate(content, output_path, env, tick) ==
    /\ pc = "ready"
    /\ cmd = "render"
    /\ pdf_available
    /\ Len(events) < MaxCalls
    /\ Rendered(content, output_path, env,
                generate_pdf_report(content, output_path, vcall.listing, clock, env, reports),
                tick)

CallSaveMarkdown(content, env, tick) ==
    /\ pc = "ready"
    /\ cmd = "render"
    /\ ~pdf_available
    /\ ~env.libs
    /\ Len(events) < MaxCalls
    /\ Rendered(content, ReportsPath, env,
                save_markdown_report(content, vcall.listing, clock, env, reports),
                tick)

NextRender ==
    \/ \E content \in {TextX, TextY}, out \in OutputPaths, env \in RenderEnvs,
          tick \in {0, 1} : CallGenerate(content, out, env, tick)
    \/ \E content \in {TextX, TextY}, env \in RenderEnvs, tick \in {0, 1} :
          CallSaveMarkdown(content, env, tick)

SpecRender == InitRender /\ [][NextRender]_vars

----------------------------------------------------------------------------
(* Claims about the render calls *)

RenderCalls == IF cmd = "render" THEN Len(events) ELSE 0

\* The last render call did not take, or did not complete, the rich path.
TookFallback == ~pdf_available \/ ~renv.libs \/ renv.rich # "ok"

\* C15: one render call leaves at most one new report file in the output
\* directory, the rich document or the plain-text file, never both.
C15_AtMostOneNewFile ==
    RenderCalls = 1 => Cardinality(reports) <= 1

\* C16: on the fallback path the file is named
\* Land_Evaluation_{listing}_{timestamp}.md, lies in the requested output
\* directory, and holds the text that was given, unmodified.
C16_FallbackFile ==
    (RenderCalls >= 1 /\ TookFallback /\ artifact # None) =>
        /\ artifact = ReportPath(DirOf(vcall.output_path), vcall.listing, vcall.ts, "md")
        /\ ReportFile(artifact, vcall.content, TRUE) \in reports

\* The libraries were missing and no directory was given.
C16_Witness ==
    /\ RenderCalls >= 1
    /\ pdf_available
    /\ ~renv.libs
    /\ vcall.output_path = "None"
    /\ artifact # None
    /\ artifact.dir = "."
    /\ artifact.ext = "md"

\* C20: a render call that finds the libraries and whose conversion
\* succeeds uses the rich path, whatever happened in the calls before it.
C20_RichPathDecidedPerCall ==
    (RenderCalls >= 1 /\ pdf_available /\ renv.libs /\ renv.rich = "ok") =>
        /\ artifact = ReportPath(DirOf(vcall.output_path), vcall.listing, vcall.ts, "pdf")
        /\ ReportFile(artifact, vcall.content, TRUE) \in reports

\* The first call fell back to plain text, the second one wrote a PDF.
C20_Witness ==
    /\ RenderCalls = 2
    /\ pdf_available
    /\ events[1].file \in {"md", "none"}
    /\ events[2].file = "pdf"
    /\ artifact # None
    /\ artifact.ext = "pdf"

----------------------------------------------------------------------------
(* Specification of cleanup_cork_folder alone: any staging directory,     *)
(* missing, empty or filled, cleaned several times in a row               *)

MaxCleanups == 2

\* What a file of a staging directory holds when it is there.
StagedFile(f) == IF f \in ExtractNames THEN StaleExtract ELSE UserFile

CleanupDirs ==
    {[f \in StagingNames |-> IF f \in S THEN StagedFile(f) ELSE NoFile] :
        S \in SUBSET StagingNames}

\* The directory as a call of cleanup_cork_folder found it.
CleanupCallOf(existed, before) == [existed |-> existed, before |-> before]

InitCleanup ==
    /\ master = NoDataset
    /\ cork_path \in CorkDirs
    /\ \E exists \in BOOLEAN, dir \in CleanupDirs :
          /\ ~exists => dir = EmptyDir
          /\ dirExists = [d \in CorkDirs |-> d = cork_path /\ exists]
          /\ staging = [d \in CorkDirs |-> IF d = cork_path THEN dir ELSE EmptyDir]
    /\ pc = "ready"
    /\ cmd = "cleanup_cork_folder"
    /\ stock_number = NaN
    /\ inputs = None
    /\ PipelineUnused
    /\ vcall = CleanupCallOf(FALSE, EmptyDir)

CallCleanup(deleted) ==
    /\ pc = "ready"
    /\ cmd = "cleanup_cork_folder"
    /\ Len(events) < MaxCleanups
    /\ CanDelete(dirExists[cork_path], staging[cork_path], deleted)
    /\ LET r == CleanupEffect(dirExists[cork_path], staging[cork_path], deleted)
       IN  /\ staging' = [staging EXCEPT ![cork_path] = r.files]
           /\ dirExists' = [dirExists EXCEPT ![cork_path] = r.exists]
    /\ vcall' = CleanupCallOf(dirExists[cork_path], staging[cork_path])
    /\ Log(Event("cleanup", cork_path, CleanupOutcome(staging[cork_path], deleted)))
    /\ UNCHANGED <<master, chroma, reportsDir, reports, pc, cmd,
                   cork_path, stock_number, inputs, result, report_content,
                   artifact, outcome, prompts, clock, pdf_available, renv>>

NextCleanup ==
    \E deleted \in SUBSET {f \in StagingNames : IsCsv(f)} : CallCleanup(deleted)

SpecCleanup == InitCleanup /\ [][NextCleanup]_vars

----------------------------------------------------------------------------
(* Claims about cleanup_cork_folder *)

Cleanups == IF cmd = "cleanup_cork_folder" THEN Len(events) ELSE 0

\* The managed extract files of a staging directory are the files that
\* the cleanup's glob matches: its *.csv files.
ManagedExtract(f) == IsCsv(f)

\* C17: cleanup_cork_folder deletes managed extract files only: the
\* staging directory is still there (or still missing) after the call,
\* every file that is no managed extract is as it was, a managed extract
\* is deleted or as it was, and no other directory is touched.
C17_OnlyManagedExtractsDeleted ==
    Cleanups >= 1 =>
        /\ dirExists[cork_path] = vcall.existed
        /\ \A f \in StagingNames :
              IF ManagedExtract(f)
              THEN staging[cork_path][f] \in {NoFile, vcall.before[f]}
              ELSE staging[cork_path][f] = vcall.before[f]
        /\ \A d \in CorkDirs \ {cork_path} :
              staging[d] = EmptyDir /\ ~dirExists[d]

\* A directory with an extract and a text file: the extract was deleted,
\* the text file and the directory are still there.
C17_Witness ==
    /\ Cleanups = 1
    /\ vcall.before["property.csv"] = StaleExtract
    /\ vcall.before["notes.txt"] = UserFile
    /\ staging[cork_path]["property.csv"] = NoFile
    /\ staging[cork_path]["notes.txt"] = UserFile
    /\ dirExists[cork_path]

\* C19 as claimed: a second call in a row always leaves the staging
\* directory as the first call left it.
C19_SecondCallChangesNothing ==
    Cleanups >= 2 =>
        /\ staging[cork_path] = vcall.before
        /\ dirExists[cork_path] = vcall.existed

\* C19: no call raises; a call on a missing directory or on one without
\* *.csv files changes nothing, and so does a call that follows one which
\* ran to its end.
C19_IdempotentAfterCompleteCall ==
    Cleanups >= 1 =>
        /\ pc = "ready"
        /\ outcome = "running"
        /\ (\/ ~vcall.existed
            \/ CsvFiles(vcall.before) = {}
            \/ Cleanups >= 2 /\ events[Len(events) - 1].file = "ok") =>
                /\ staging[cork_path] = vcall.before
                /\ dirExists[cork_path] = vcall.existed

\* Two calls in a row on a directory that held extracts: the first one
\* deleted them all, the second one found none.
C19_Witness ==
    /\ Cleanups = 2
    /\ events[1].file = "ok"
    /\ events[2].file = "ok"
    /\ vcall.existed
    /\ vcall.before["notes.txt"] = UserFile
    /\ CsvFiles(vcall.before) = {}
    /\ staging[cork_path] = vcall.before

\* A call on a missing directory.
C19_WitnessMissing ==
    /\ Cleanups = 1
    /\ ~vcall.existed
    /\ ~dirExists[cork_path]

\* Position i of events is a cleanup that a file-system error cut short.
FailedCleanupAt(i) == events[i].op = "cleanup" /\ events[i].file = "error"

\* C18: cleanup_cork_folder never raises to its caller: after a cleanup
\* that met a file-system error the command has not ended in an error but
\* is at the next stage, the extraction that precedes report delivery.
C18_CleanupErrorSwallowed ==
    \A i \in 1..Len(events) :
        FailedCleanupAt(i) =>
            IF i = Len(events)
            THEN pc = "extract" /\ outcome = "running"
            ELSE events[i + 1].op = "extract"

\* A cleanup failed with extracts left behind, and the report was
\* delivered all the same.
C18_Witness ==
    /\ Done("run")
    /\ \E i \in 1..Len(events) : FailedCleanupAt(i)
    /\ CsvFiles(staging[cork_path]) # {}
    /\ Delivered
    /\ outcome = "returned"

----------------------------------------------------------------------------
(* Further claims about process_master_csv *)

\* C21: the filter by the selected identifier yields at most one record,
\* so every extract that process_master_csv wrote holds exactly one data
\* row.
C21_ExactlyOneRow ==
    (Returned("process_master_csv") /\ inputs # None) =>
        /\ Len(StockData(master, stock_number)) <= 1
        /\ \A f \in ExtractNames :
              Written(cork_path, f) => Len(staging[cork_path][f].rows) = 1

----------------------------------------------------------------------------
(* Further claims about the render calls *)

\* C22 as claimed: a report file, once written, is never overwritten or
\* changed by a later render call.
C22_ReportsNeverOverwritten ==
    [][\A f \in reports : f \in reports']_vars

\* C22: a later render call leaves a report file as it is unless it
\* writes to the very same path: the same directory and listing id within
\* the same second of the clock.
C22_OverwrittenOnlyInSameSecond ==
    [][\A f \in reports :
          \/ f \in reports'
          \/ /\ f.path.dir = DirOf(vcall'.output_path)
             /\ f.path.listing = vcall'.listing
             /\ f.path.ts = vcall'.ts
             /\ f.path.ts = clock]_vars

\* Two calls a second apart for the same listing and directory: both
\* files are there, each with its own text.
C22_Witness ==
    /\ RenderCalls = 2
    /\ \E f \in reports, g \in reports :
          /\ f.path.ts = 0
          /\ g.path.ts = 1
          /\ f.path.dir = g.path.dir
          /\ f.path.ext = g.path.ext
          /\ f.text = TextX
          /\ g.text = TextY

\* The first row of the dataset whose identifier equals the requested one.
FirstMatch ==
    CHOOSE i \in 1..Len(master.ids) :
        /\ PdEq(ReadColumn(master.ids)[i], stock_number)
        /\ \A j \in 1..(i - 1) : ~PdEq(ReadColumn(master.ids)[j], stock_number)

ValueOrUnknown(c) ==
    IF HasColumn(master, c) THEN Cell(FirstMatch, c) ELSE Unknown

MetadataOfFirstMatch ==
    /\ inputs.ok
    /\ inputs.listing_id = stock_number
    /\ inputs.City = ValueOrUnknown("City")
    /\ inputs.State = ValueOrUnknown("State")
    /\ inputs["Property Address"] = ValueOrUnknown("Property Address")

\* No extract has to be written, or the directory to write into exists.
CanWriteExtracts == Materialized(master) = {} \/ dirExists[cork_path]

\* C23 as claimed: for an identifier present in the dataset the call
\* returns a mapping with the requested listing_id and the City, State
\* and Property Address of the matching row, 'Unknown' for a column the
\* dataset lacks.
C23_MappingForPresentId ==
    (Returned("process_master_csv") /\ RequestedInDataset) => MetadataOfFirstMatch

\* C23: for an identifier present in the dataset the call returns that
\* mapping, with the values of the first matching row, when the extracts
\* can be written; it returns None when cork_path is no existing
\* directory and an extract has to be written.
C23_MappingWhenWritable ==
    (Returned("process_master_csv") /\ RequestedInDataset) =>
        IF CanWriteExtracts THEN MetadataOfFirstMatch ELSE inputs = None

\* Two rows have the identifier; the dataset has City but not State.
C23_Witness ==
    /\ Returned("process_master_csv")
    /\ RequestedInDataset
    /\ Len(StockData(master, stock_number)) = 2
    /\ inputs.ok
    /\ inputs.City = Cell(1, "City")
    /\ inputs.State = Unknown
    /\ inputs.listing_id = stock_number

----------------------------------------------------------------------------
(* Further claims about the commands *)

\* The place of a logged operation in the order RecordStore, Segmenter,
\* engine, ResultExtractor, ReportRenderer, Cleanup; 0 for the directory
\* setup that precedes them.
StageRank(op) ==
    CASE op = "write" -> 2
      [] op = "engine" -> 3
      [] op = "extract" -> 4
      [] op = "render" -> 5
      [] op = "cleanup" -> 6
      [] OTHER -> 0

\* C24: every command performs the stages in the order RecordStore,
\* Segmenter, engine, ResultExtractor, ReportRenderer, Cleanup: no
\* operation of a later stage precedes one of an earlier stage, and a
\* command that delivered its report has segmented a record and cleaned
\* the staging directory.
C24_StagesInOrder ==
    /\ \A i, j \in 1..Len(events) :
          StageRank(events[i].op) < StageRank(events[j].op) => i < j
    /\ (pc = "done" /\ cmd \in Commands /\ Happened("render")) =>
          /\ inputs # None
          /\ Happened("cleanup")

----------------------------------------------------------------------------
(* Further claims about the extractors *)

\* An object whose raw attribute is a dict of task outcomes (dicts all of
\* them), none of which is completed with a non-empty text output.
StructuredNoMatch(r) ==
    /\ r.kind = "obj"
    /\ r.has_raw
    /\ r.raw_is_dict
    /\ \A i \in 1..Len(r.tasks) : r.tasks[i].is_dict
    /\ QualifyingAt(r) = {}

\* C25: on a structured result without an accepted outcome both
\* extractors return str(result), the textual representation of the
\* result value (for a result that has one: str() returns).
C25_FallbackToStr ==
    (pc # "ready" /\ cmd \in Extractors /\ StructuredNoMatch(result)
        /\ ~result.str_raises) =>
        /\ pc = "returned"
        /\ report_content = result.repr

\* Two outcomes, one failed and one completed with an empty output.
C25_Witness ==
    /\ pc = "returned"
    /\ cmd \in Extractors
    /\ StructuredNoMatch(result)
    /\ Len(result.tasks) = 2
    /\ \E i \in 1..2 : result.tasks[i] = TaskDict("completed", <<>>)
    /\ \E i \in 1..2 : result.tasks[i] = TaskDict("failed", TextY)
    /\ report_content = TextRepr

\* C30: the two extractors, extract_report_from_result of main.py and
\* get_final_report_text of crew.py, give the same outcome on every
\* engine result: the same text, and neither raises where the other
\* returns.
C30_ExtractorsAgree ==
    (pc # "ready" /\ cmd \in Extractors) =>
        extract_report_from_result(result) = get_final_report_text(result)

----------------------------------------------------------------------------
(* Claims about get_stock_number *)

\* The prompt has been answered at least once.
Answered == cmd \in {"run", "train"} /\ vcall # NoCall

\* An answer the prompt accepts: the position of an entry of the list, or
\* an entry of the list itself.
ValidAnswer(choice) ==
    LET stocks == ReadColumn(master.ids)
    IN  \/ choice \in DigitStrings /\ IntOf(choice) \in 1..Len(stocks)
        \/ \E i \in 1..Len(stocks) : stocks[i] = StrVal(choice)

\* The selection has returned an identifier of the list.
SelectionReturned ==
    /\ master.exists
    /\ HasColumn(master, "StockNumber")
    /\ stock_number \in Range(ReadColumn(master.ids))

\* C26: get_stock_number asks again after every invalid answer and
\* returns on the first valid one (a list index or a listed identifier),
\* whereupon the command proceeds; no later stage of run or train starts
\* before the selection has returned.
C26_PromptUntilValid ==
    /\ (Answered /\ pc = "select") =>
          /\ ~ValidAnswer(vcall.choice)
          /\ prompts >= 1
          /\ stock_number = NaN
          /\ ~Happened("write")
    /\ (Answered /\ pc # "select") =>
          \/ ValidAnswer(vcall.choice) /\ SelectionReturned
          \/ pc = "done" /\ outcome = "interrupted" /\ ~ValidAnswer(vcall.choice)
    /\ (cmd \in {"run", "train"}
            /\ pc \in {"process", "engine", "cleanup", "extract", "render"}) =>
          Answered /\ SelectionReturned
    /\ (cmd \in {"run", "train"} /\ (Happened("write") \/ Happened("engine"))) =>
          Answered /\ SelectionReturned

\* After an invalid answer the second answer was valid, and the command
\* went on to the engine.
C26_Witness ==
    /\ Answered
    /\ prompts = 1
    /\ ValidAnswer(vcall.choice)
    /\ SelectionReturned
    /\ Happened("engine")

\* The text that the list shows for an identifier: print(f"{i+1}. {stock}").
\* A numeric column with an empty cell is a float column.
ShownText(stocks, i) ==
    LET v == stocks[i]
    IN  CASE v.t = "str" -> v.s
          [] v.t = "nan" -> "nan"
          [] OTHER ->
               IF NaN \in Range(stocks)
               THEN CASE v.n = 0 -> "0.0" [] v.n = 1 -> "1.0" [] v.n = 2 -> "2.0"
                      [] OTHER -> "3.0"
               ELSE CASE v.n = 0 -> "0" [] v.n = 1 -> "1" [] v.n = 2 -> "2"
                      [] OTHER -> "3"

\* The positions of the list that show the text typed.
ShownAt(choice) ==
    {i \in 1..Len(ReadColumn(master.ids)) : ShownText(ReadColumn(master.ids), i) = choice}

\* C29: typing the exact text of an identifier shown in the list selects
\* that identifier, whatever the identifiers are.
C29_TypedIdentifierSelected ==
    (Answered /\ ~CannotSelect(master) /\ ShownAt(vcall.choice) # {}
        /\ ~(pc = "done" /\ outcome = "interrupted")) =>
        /\ pc # "select"
        /\ \E i \in ShownAt(vcall.choice) : stock_number = ReadColumn(master.ids)[i]

----------------------------------------------------------------------------
(* Claims about the staging directory at the time of the engine call *)

\* C27: when the engine is invoked by run or train, every extract file in
\* the staging directory was written by this command from the selected
\* record; none is left from an earlier command or another record.
C27_OnlyFreshExtractsAtEngine ==
    (cmd \in {"run", "train"} /\ pc = "engine") =>
        \A k \in SegmentIds :
            LET f == Segments[k].file
            IN  staging[cork_path][f].kind # "none" =>
                    /\ Written(cork_path, f)
                    /\ staging[cork_path][f] =
                           SegmentFile(master, StockData(master, stock_number), k)

\* C28: every extract path in the mapping returned by process_master_csv
\* lies inside the directory passed as cork_path, whatever that is.
C28_PathsInsideCorkPath ==
    (Returned("process_master_csv") /\ inputs # None) =>
        \A k \in SegmentIds :
            Segments[k].key \in DOMAIN inputs =>
                inputs[Segments[k].key].dir = cork_path

====
